---- MODULE Spec2Model ----
(***************************************************************************)
(* A model of whale_detector.py: the trade pipeline (process_trade,        *)
(* analyze_trade and the cached enrichment lookups), the exclusion-set     *)
(* refresh that runs on the periodic thread, and the WebSocketClient       *)
(* connection state machine with its health-check loop.                    *)
(*                                                                         *)
(* Money and scores are kept in hundredths (price 50 is 0.50, score 3996   *)
(* is 39.96), time in seconds.  A Python dict is a function whose DOMAIN   *)
(* is the set of keys present.                                             *)
(***************************************************************************)
EXTENDS Integers, Sequences, FiniteSets, TLC

VARIABLES
    seen_trades,            \* line 59
    wallet_cache,           \* line 58
    excluded_markets_cache, \* line 60
    stats,                  \* line 63
    now,                    \* time.time()
    rPc,                    \* refresh_excluded_markets: "idle" | "build"
    all_excluded,           \* its local set (line 145)
    tagsLeft,               \* the tags its loop has still to fetch (line 147)
    booted,                 \* run_detector has finished its start-up refresh (line 690)
    last,                   \* what the latest process_trade call did (observation)
    accepted,               \* per dedup key, how often it passed the dedup check, the
                            \* number of the call that added it last and how often it
                            \* was evicted (observation)
    fetched,                \* lookups the Gateway has answered with success (observation)
    hist,                   \* lookups answered "not found" and the transaction
                            \* identifiers of the events handled so far (observation)
    should_run, connected, reconnect_delay, last_message_time,  \* lines 555-559
    sock,                   \* the socket of the WebSocketApp self.ws refers to
    wsPc,                   \* where the thread that runs connect() is
    depth,                  \* connect() invocations on that thread's call stack
    wake,                   \* when its time.sleep of on_close ends
    health,                 \* the health_loop threads started so far
    obs                     \* what the connector was seen doing (observation)

pipeVars == <<seen_trades, wallet_cache, excluded_markets_cache, stats, rPc,
              all_excluded, tagsLeft, booted, last, accepted, fetched, hist>>
wsVars == <<should_run, connected, reconnect_delay, last_message_time, sock,
            wsPc, depth, wake, health, obs>>
vars == <<pipeVars, wsVars, now>>

-----------------------------------------------------------------------------
(* Configuration: the defaults of the environment variables and the        *)
(* literals of the code.                                                   *)
MIN_TRADE_AMOUNT == 500
MAX_ACCOUNT_AGE_DAYS == 60
MAX_MARKETS_TRADED == 10
MIN_TRADES_ON_MARKET == 3
MIN_TOTAL_AMOUNT_ON_MARKET == 5000
EXCLUDED_CACHE_TTL == 3600
EXCLUDED_TAG_IDS == <<1, 235>>
PROFILE_TTL == 3600
POSITIONS_TTL == 300
LONGSHOT_PRICE == 50
ALERT_SCORE == 40
SECONDS_PER_DAY == 86400
UNKNOWN_AGE == 9999

(* seen_trades is cut when it holds more than 100000 keys and the first    *)
(* 50000 of list(seen_trades) are dropped; the model keeps the proportion  *)
(* (limit, half of it dropped) at a size TLC can enumerate.                *)
SEEN_LIMIT == 3
SeenDropCount == SEEN_LIMIT \div 2

(* The clock starts at a Unix time well past every TTL and every account   *)
(* age, as time.time() is; the pipeline's clock then moves along Offsets.  *)
StartTime == 10000000
Offsets == {0, 299, 300, 3599, 3600, 3900}
MaxEvents == 2
MaxCacheEvents == 3
MaxDedupEvents == 6
MaxStreamEvents == 2
MaxStreamElapsed == 20
MaxCounterEvents == 4
MaxScoringEvents == 2

-----------------------------------------------------------------------------
(* Python values *)
NoneVal == "<None>"
Truthy(v) == v \notin {"", NoneVal}
Or(a, b) == IF Truthy(a) THEN a ELSE b
Get(d, k, dflt) == IF k \in DOMAIN d THEN d[k] ELSE dflt
Put(d, k, v) == (k :> v) @@ d
Min(a, b) == IF a < b THEN a ELSE b
EmptyDict == [k \in {} |-> 0]

RECURSIVE SumSeq(_)
SumSeq(s) == IF s = <<>> THEN 0 ELSE Head(s) + SumSeq(Tail(s))

Abs(x) == IF x < 0 THEN 0 - x ELSE x

(* round(x, 1) on hundredths: to the nearest tenth, an exact tie to the    *)
(* even tenth (Python's round).                                            *)
Round1(h) ==
    LET q == h \div 10
        r == h % 10
    IN  IF r < 5 THEN 10 * q
        ELSE IF r > 5 THEN 10 * (q + 1)
        ELSE IF q % 2 = 0 THEN 10 * q ELSE 10 * (q + 1)

-----------------------------------------------------------------------------
(* The Gateway: each HTTP request is answered with status 200 and a body   *)
(* (ok) or fails (exception, timeout, other status).  A Python result that *)
(* may be None is [none |-> TRUE] or [none |-> FALSE, val |-> v].          *)
Fail == [ok |-> FALSE]
(* the request is answered with status 404 *)
NotFound == [ok |-> FALSE, status |-> 404]
IsNotFound(resp) == "status" \in DOMAIN resp /\ resp.status = 404
Ok(b) == [ok |-> TRUE, body |-> b]
None == [none |-> TRUE]
Some(v) == [none |-> FALSE, val |-> v]

Wallets == {"w1", "w2"}
Markets == {"m1", "m2", "m3"}

ProfileCreated(ageDays) == [createdAt |-> StartTime - ageDays * SECONDS_PER_DAY]
ProfileNoDate == [name |-> "anon"]
Profiles == {ProfileCreated(48), ProfileCreated(61), ProfileNoDate}

HistTrade(sz, pr, sd) == [size |-> sz, price |-> pr, side |-> sd]
Histories ==
    { <<HistTrade(10000, 40, "BUY"), HistTrade(10000, 40, "SELL")>>,
      <<HistTrade(4000, 50, "BUY"), HistTrade(4000, 50, "BUY"), HistTrade(2000, 50, "SELL")>>,
      <<HistTrade(4000, 50, "BUY"), HistTrade(2000, 50, "BUY"), HistTrade(2000, 50, "SELL")>> }

Position(c, v) == [conditionId |-> c, currentValue |-> v]
PositionLists ==
    { <<>>,
      <<Position("m2", 249), Position("m3", 0 - 376)>> }

(* Positions as the positions endpoint lists them, with the side held. *)
SidedPosition(c, o, v) == [conditionId |-> c, outcome |-> o, currentValue |-> v]
Books ==
    { <<SidedPosition("m2", "Yes", 600), SidedPosition("m2", "No", 500)>>,
      <<SidedPosition("m2", "Yes", 500), SidedPosition("m2", "No", 600)>>,
      <<SidedPosition("m2", "Yes", 600), SidedPosition("m2", "No", 50)>>,
      <<SidedPosition("m2", "Yes", 50), SidedPosition("m2", "No", 600)>> }
(* ages on both sides of the cap of line 400 and of MAX_ACCOUNT_AGE_DAYS *)
Ages == {0, 4, 10, 11, 48, MAX_ACCOUNT_AGE_DAYS, MAX_ACCOUNT_AGE_DAYS + 1}

StatsBodies == { [traded |-> 0], [traded |-> 2] }
MarketBodies == { <<[question |-> "Will it rain?"]>> }

Responses(bodies) == {Fail} \cup {Ok(b) : b \in bodies}
Gateways ==
    [profile : Responses(Profiles), trades : Responses(Histories),
     positions : Responses(PositionLists), stats : Responses(StatsBodies),
     market : Responses(MarketBodies), telegram : BOOLEAN]
GatewayDown ==
    [profile |-> Fail, trades |-> Fail, positions |-> Fail, stats |-> Fail,
     market |-> Fail, telegram |-> FALSE]

-----------------------------------------------------------------------------
(* The enrichment lookups.  Each returns what the function returns (ret),  *)
(* the wallet cache after the call and the Gateway requests it made.       *)
CacheEntry(cache, wallet) == Get(cache, wallet, EmptyDict)

(* A variant of get_wallet_profile that falls back on the stored profile   *)
(* when the refetch of an expired entry fails.                             *)
get_wallet_profile_stale(wallet, cache, t, resp) ==
    IF /\ wallet \in DOMAIN cache
       /\ t - Get(cache[wallet], "last_updated", 0) < PROFILE_TTL
    THEN [ret |-> IF "profile" \in DOMAIN cache[wallet]
                  THEN Some(cache[wallet]["profile"]) ELSE None,
          cache |-> cache, calls |-> <<>>]
    ELSE IF resp.ok
    THEN [ret |-> Some(resp.body),
          cache |-> Put(cache, wallet,
                        Put(Put(CacheEntry(cache, wallet), "profile", resp.body),
                            "last_updated", t)),
          calls |-> <<"profile">>]
    ELSE [ret |-> IF wallet \in DOMAIN cache /\ "profile" \in DOMAIN cache[wallet]
                  THEN Some(cache[wallet]["profile"]) ELSE None,
          cache |-> cache, calls |-> <<"profile">>]

get_wallet_profile(wallet, cache, t, resp) ==
    IF /\ wallet \in DOMAIN cache
       /\ t - Get(cache[wallet], "last_updated", 0) < PROFILE_TTL
    THEN [ret |-> IF "profile" \in DOMAIN cache[wallet]
                  THEN Some(cache[wallet]["profile"]) ELSE None,
          cache |-> cache, calls |-> <<>>]
    ELSE IF resp.ok
    THEN [ret |-> Some(resp.body),
          cache |-> Put(cache, wallet,
                        Put(Put(CacheEntry(cache, wallet), "profile", resp.body),
                            "last_updated", t)),
          calls |-> <<"profile">>]
    ELSE [ret |-> None, cache |-> cache, calls |-> <<"profile">>]

get_wallet_positions(wallet, cache, t, resp) ==
    IF /\ wallet \in DOMAIN cache
       /\ t - Get(cache[wallet], "positions_updated", 0) < POSITIONS_TTL
    THEN [ret |-> Get(cache[wallet], "positions", <<>>),
          cache |-> cache, calls |-> <<>>]
    ELSE IF resp.ok
    THEN [ret |-> resp.body,
          cache |-> Put(cache, wallet,
                        Put(Put(CacheEntry(cache, wallet), "positions", resp.body),
                            "positions_updated", t)),
          calls |-> <<"positions">>]
    ELSE [ret |-> <<>>, cache |-> cache, calls |-> <<"positions">>]

get_wallet_stats(wallet, resp) ==
    [ret |-> IF resp.ok THEN Some(resp.body) ELSE None, calls |-> <<"stats">>]

HistAmounts(trades, sides) ==
    [i \in 1..Len(trades) |->
        IF (trades[i].side = "BUY") = sides THEN trades[i].size * trades[i].price ELSE 0]

get_wallet_trades_on_market(wallet, market_id, resp) ==
    IF resp.ok
    THEN LET buy == SumSeq(HistAmounts(resp.body, TRUE))
             sell == SumSeq(HistAmounts(resp.body, FALSE))
         IN  [ret |-> [trade_count |-> Len(resp.body), total_amount |-> buy + sell,
                       net_amount |-> Abs(buy - sell),
                       dominant_side |-> IF buy - sell > 0 THEN "BUY" ELSE "SELL"],
              calls |-> <<"trades">>]
    ELSE [ret |-> [trade_count |-> 0, total_amount |-> 0, net_amount |-> 0,
                   dominant_side |-> "UNKNOWN"],
          calls |-> <<"trades">>]

get_market_info(condition_id, resp) ==
    [ret |-> IF resp.ok /\ Len(resp.body) > 0 THEN Some(resp.body[1]) ELSE None,
     calls |-> <<"market">>]

calculate_account_age(profile, t) ==
    IF "createdAt" \notin DOMAIN profile THEN UNKNOWN_AGE
    ELSE (t - profile["createdAt"]) \div SECONDS_PER_DAY

(* In hundredths of a percent.  The position lists of the model divide     *)
(* without a remainder, so the integer quotient is the float's value.      *)
calculate_portfolio_concentration(positions, target_market) ==
    LET value == [i \in 1..Len(positions) |-> Abs(positions[i].currentValue)]
        target == [i \in 1..Len(positions) |->
                     IF positions[i].conditionId = target_market THEN value[i] ELSE 0]
    IN  IF positions = <<>> THEN 10000
        ELSE IF SumSeq(value) = 0 THEN 10000
        ELSE (10000 * SumSeq(target)) \div SumSeq(value)

-----------------------------------------------------------------------------
(* analyze_trade.  The result carries, beside the analysis (None, or the   *)
(* whale score as returned, rounded to a tenth), the return statement that *)
(* was taken (stage), the unrounded sum (raw), the cache after the call,   *)
(* the Gateway requests made and what the two cached lookups returned.     *)
Verdict(stage, score, raw, cache, calls, profRet, posRet) ==
    [stage |-> stage, score |-> score, raw |-> raw, cache |-> cache,
     calls |-> calls, profRet |-> profRet, posRet |-> posRet]
Reject(stage, cache, calls, profRet) ==
    Verdict(stage, 0 - 1, 0 - 1, cache, calls, profRet, None)

(* line 400, in hundredths of a point *)
fresh_wallet_score(account_age) ==
    Min(2500, ((MAX_ACCOUNT_AGE_DAYS - account_age) * 100) \div 2)

whale_score(account_age, concentration, total_amount, trades_on_market, markets_traded) ==
      fresh_wallet_score(account_age)
    + Min(2500, concentration \div 4)
    + Min(2500, total_amount \div 1000)
    + Min(1500, trades_on_market * 300)
    + (IF markets_traded < MAX_MARKETS_TRADED
       THEN Min(1000, (MAX_MARKETS_TRADED - markets_traded) * 100) ELSE 0)

(* lines 359-431: the enrichment calls, their filters and the score *)
AnalyzeEnriched(wallet, market_id, title, cache, t, gw) ==
    LET p == get_wallet_profile(wallet, cache, t, gw.profile)
        account_age == calculate_account_age(p.ret.val, t)
        h == get_wallet_trades_on_market(wallet, market_id, gw.trades)
        pos == get_wallet_positions(wallet, p.cache, t, gw.positions)
        concentration == calculate_portfolio_concentration(pos.ret, market_id)
        st == get_wallet_stats(wallet, gw.stats)
        markets_traded == IF st.ret.none THEN 0 ELSE Get(st.ret.val, "traded", 0)
        mi == IF Truthy(title) THEN [calls |-> <<>>]
              ELSE get_market_info(market_id, gw.market)
        raw == whale_score(account_age, concentration, h.ret.total_amount,
                           h.ret.trade_count, markets_traded)
    IN  IF p.ret.none \/ DOMAIN p.ret.val = {}
        THEN Reject("no_profile", p.cache, p.calls, p.ret)
        ELSE IF account_age > MAX_ACCOUNT_AGE_DAYS
        THEN Reject("too_old", p.cache, p.calls, p.ret)
        ELSE IF h.ret.trade_count < MIN_TRADES_ON_MARKET
        THEN Reject("few_trades", p.cache, p.calls \o h.calls, p.ret)
        ELSE IF h.ret.total_amount < MIN_TOTAL_AMOUNT_ON_MARKET * 100
        THEN Reject("low_total", p.cache, p.calls \o h.calls, p.ret)
        ELSE Verdict("scored", Round1(raw), raw, pos.cache,
                     p.calls \o h.calls \o pos.calls \o st.calls \o mi.calls,
                     p.ret, Some(pos.ret))

(* lines 341-357: the checks that need no Gateway call; "" when all pass *)
AnalyzeFast(trade) ==
    LET wallet == Or(Get(trade, "proxyWallet", NoneVal), Get(trade, "proxy_wallet", NoneVal))
        size == Get(trade, "size", 0)
        price == Get(trade, "price", 0)
    IN  IF ~Truthy(wallet) THEN "no_wallet"
        ELSE IF size * price < MIN_TRADE_AMOUNT * 100 THEN "small_analyze"
        ELSE IF price > LONGSHOT_PRICE THEN "price"
        ELSE ""

(* A variant of analyze_trade that runs the enrichment calls first and     *)
(* applies the call-free checks to their result.                           *)
analyze_trade_enrich_first(trade, cache, t, gw) ==
    LET wallet == Or(Get(trade, "proxyWallet", NoneVal), Get(trade, "proxy_wallet", NoneVal))
        market_id == Or(Get(trade, "conditionId", NoneVal), Get(trade, "condition_id", ""))
        title == Or(Get(trade, "title", NoneVal), Get(trade, "market_slug", ""))
        v == AnalyzeEnriched(wallet, market_id, title, cache, t, gw)
    IN  IF AnalyzeFast(trade) # ""
        THEN Reject(AnalyzeFast(trade), v.cache, v.calls, None)
        ELSE v

analyze_trade(trade, cache, t, gw) ==
    LET wallet == Or(Get(trade, "proxyWallet", NoneVal), Get(trade, "proxy_wallet", NoneVal))
        market_id == Or(Get(trade, "conditionId", NoneVal), Get(trade, "condition_id", ""))
        title == Or(Get(trade, "title", NoneVal), Get(trade, "market_slug", ""))
    IN  IF AnalyzeFast(trade) # ""
        THEN Reject(AnalyzeFast(trade), cache, <<>>, None)
        ELSE AnalyzeEnriched(wallet, market_id, title, cache, t, gw)

-----------------------------------------------------------------------------
(* process_trade *)
(* Sizes and prices of the stream are never negative in the model; this    *)
(* value stands for a JSON value that float() rejects with ValueError.     *)
NonNumeric == 0 - 1
TradeId(trade_data) ==
    <<Get(trade_data, "transaction_hash", ""), Get(trade_data, "asset", ""),
      Get(trade_data, "timestamp", "")>>

(* A variant of process_trade without lines 497-501. *)
EvictionsNever(S) == { S }

(* lines 497-501: list(seen_trades) is in no defined order, so the dropped *)
(* half is any SeenDropCount of the keys; each outcome is the set kept.    *)
Evictions(S) ==
    IF Cardinality(S) > SEEN_LIMIT
    THEN { S \ D : D \in { X \in SUBSET S : Cardinality(X) = SeenDropCount } }
    ELSE { S }

(* line 491 *)
AlreadySeen(trade_id, seen) == trade_id \in seen

is_excluded_market(condition_id, cacheRec) == condition_id \in cacheRec.condition_ids

(* A variant of the counters' increment that counts an event twice. *)
BumpTwice(st, k) == [st EXCEPT ![k] = @ + 2]

Bump(st, k) == [st EXCEPT ![k] = @ + 1]

(* lines 520-530 *)
Normalize(trade_data, size, price, condition_id) ==
    [proxyWallet |-> Or(Get(trade_data, "proxy_wallet", NoneVal),
                        Get(trade_data, "proxyWallet", NoneVal)),
     size |-> size, price |-> price, conditionId |-> condition_id,
     side |-> Get(trade_data, "side", ""), outcome |-> Get(trade_data, "outcome", ""),
     title |-> Or(Get(trade_data, "market_slug", NoneVal), Get(trade_data, "slug", "")),
     transactionHash |-> Or(Get(trade_data, "transaction_hash", NoneVal),
                            Get(trade_data, "transactionHash", ""))]

(* The whole of process_trade on trade_data, `kept` being the outcome of   *)
(* the eviction: the new seen_trades, wallet_cache and stats, the return   *)
(* taken (stage), the Gateway requests and the send_telegram_message calls.*)
(* Stage "raised": float() of line 504 or 505 raised, after the key was    *)
(* added; the exception leaves process_trade.                              *)
Outcome(seen, cache, st, stage, v, sends) ==
    [seen |-> seen, cache |-> cache, stats |-> st, stage |-> stage,
     calls |-> v.calls, sends |-> sends, score |-> v.score, raw |-> v.raw,
     profRet |-> v.profRet, posRet |-> v.posRet]

process_trade(trade_data, seen, kept, cache, excl, st, t, gw) ==
    LET st1 == Bump(st, "trades_received")
        size == Get(trade_data, "size", 0)
        price == Get(trade_data, "price", 0)
        st2 == Bump(st1, "trades_processed")
        condition_id == Or(Get(trade_data, "condition_id", NoneVal),
                           Get(trade_data, "conditionId", ""))
        v == analyze_trade(Normalize(trade_data, size, price, condition_id), cache, t, gw)
        nothing == Reject("", cache, <<>>, None)
    IN  IF AlreadySeen(TradeId(trade_data), seen)
        THEN Outcome(seen, cache, st1, "duplicate", nothing, 0)
        ELSE IF size = NonNumeric \/ price = NonNumeric
        THEN Outcome(kept, cache, st1, "raised", nothing, 0)
        ELSE IF size * price < MIN_TRADE_AMOUNT * 100
        THEN Outcome(kept, cache, st1, "small", nothing, 0)
        ELSE IF is_excluded_market(condition_id, excl)
        THEN Outcome(kept, cache, Bump(st2, "skipped_excluded"), "excluded", nothing, 0)
        ELSE IF v.stage = "scored" /\ v.score >= ALERT_SCORE * 100
        THEN Outcome(kept, v.cache,
                     IF gw.telegram THEN Bump(st2, "alerts_sent") ELSE st2,
                     "alert", v, 1)
        ELSE Outcome(kept, v.cache, st2,
                     IF v.stage = "scored" THEN "below" ELSE v.stage, v, 0)

-----------------------------------------------------------------------------
(* The stream's payloads: a trade in the snake_case or the camelCase       *)
(* naming, with or without a wallet, with or without a slug.               *)
Field(present, k, v) == IF present THEN (k :> v) ELSE EmptyDict
Event(conv, tx, wallet, cond, size, price, slug) ==
    [asset |-> "a1", timestamp |-> "1700000000", size |-> size, price |-> price,
     side |-> "BUY", outcome |-> "Yes"]
    @@ Field(conv = "snake", "transaction_hash", tx)
    @@ Field(conv = "camel", "transactionHash", tx)
    @@ Field(conv = "snake", "condition_id", cond)
    @@ Field(conv = "camel", "conditionId", cond)
    @@ Field(conv = "snake" /\ wallet # NoneVal, "proxy_wallet", wallet)
    @@ Field(conv = "camel" /\ wallet # NoneVal, "proxyWallet", wallet)
    @@ Field(conv = "snake" /\ slug, "market_slug", "will-it-rain")
    @@ Field(conv = "camel" /\ slug, "slug", "will-it-rain")

Convs == {"snake", "camel"}
Events ==
    { Event("snake", "0xa", "w1", "m2", 1000, 50, TRUE),
      Event("camel", "0xa", "w1", "m2", 1000, 50, FALSE) }
    \cup { Event("snake", "0xc", "w1", "m2", 900, 50, TRUE),
           Event("camel", "0xc", "w1", "m2", 1000, 60, TRUE),
           Event("snake", "0xd", "w1", "m1", 1000, 50, TRUE),
           Event("camel", "0xe", NoneVal, "m2", 1000, 50, TRUE),
           Event("snake", "0xf", "w2", "m2", 1000, 50, TRUE) }

(* For the exclusion set: trades in a market of an excluded tag and in     *)
(* one of none.                                                            *)
ReaderEvents ==
    { Event("snake", "0xa", "w1", "m1", 1000, 50, TRUE),
      Event("camel", "0xb", "w1", "m3", 1000, 50, TRUE),
      Event("snake", "0xc", "w1", "m2", 1000, 50, TRUE) }

(* For the cache: trades that reach the enrichment calls. *)
CacheEvents ==
    { Event("snake", "0xa", "w1", "m2", 1000, 50, TRUE),
      Event("snake", "0xb", "w1", "m2", 1000, 50, FALSE),
      Event("camel", "0xc", "w2", "m2", 1000, 50, FALSE) }
CacheGateways ==
    { [GatewayDown EXCEPT !.profile = p, !.trades = h, !.positions = q, !.market = m] :
        p \in {NotFound, Ok(ProfileCreated(48))},
        h \in {Ok(<<HistTrade(4000, 50, "BUY"), HistTrade(4000, 50, "BUY"),
                    HistTrade(2000, 50, "SELL")>>)},
        q \in {Fail, Ok(<<Position("m2", 249), Position("m3", 0 - 376)>>)},
        m \in {Ok(<<[question |-> "Will it rain?"]>>)} }

(* For the stream: a trade that alerts, one in an excluded market and two  *)
(* whose size or price is not a number.                                    *)
StreamEvents ==
    { Event("snake", "0x1", "w1", "m2", 1000, 50, TRUE),
      Event("snake", "0x2", "w1", "m1", 1000, 50, TRUE),
      Event("snake", "0x3", "w1", "m2", NonNumeric, 50, TRUE),
      Event("camel", "0x4", "w1", "m2", 1000, NonNumeric, TRUE) }

(* For the deduplicator: many keys, one shape of trade. *)
DedupEvents ==
    { Event("snake", tx, "w1", "m2", 1000, 50, TRUE) :
        tx \in {"0x1", "0x2", "0x3", "0x4", "0x5", "0x6"} }
(* the transaction hashes in the order in which the stream first shows them *)
DedupTxs == <<"0x1", "0x2", "0x3", "0x4", "0x5", "0x6">>
DedupGateway ==
    [profile |-> Ok(ProfileCreated(48)),
     trades |-> Ok(<<HistTrade(4000, 50, "BUY"), HistTrade(4000, 50, "BUY"),
                     HistTrade(2000, 50, "SELL")>>),
     positions |-> Ok(<<>>), stats |-> Ok([traded |-> 2]),
     market |-> Fail, telegram |-> TRUE]

(* For the score: trades of two wallets that pass every filter, wallets of *)
(* several ages and wallets that hold both sides of the market.            *)
ScoringEvents ==
    { Event("snake", "0xa", "w1", "m2", 1000, 50, TRUE),
      Event("camel", "0xb", "w2", "m2", 1000, 50, TRUE) }
ScoringGateways ==
    { [DedupGateway EXCEPT !.profile = Ok(ProfileCreated(a))] : a \in Ages }
    \cup { [DedupGateway EXCEPT !.positions = Ok(b)] : b \in Books }

-----------------------------------------------------------------------------
(* Observations of a process_trade call, for the properties below. *)
FastStages == {"small", "excluded", "no_wallet", "small_analyze", "price"}
ProfileStages == {"no_profile", "too_old", "few_trades", "low_total", "below", "alert"}
PositionStages == {"below", "alert"}

EventWallet(e) == Or(Get(e, "proxy_wallet", NoneVal), Get(e, "proxyWallet", NoneVal))
EventMarket(e) == Or(Get(e, "condition_id", NoneVal), Get(e, "conditionId", ""))
(* the transaction identifier under either naming (line 529) *)
EventTx(e) == Or(Get(e, "transaction_hash", NoneVal), Get(e, "transactionHash", ""))
LookupKey(kind, e) ==
    CASE kind = "profile" -> <<kind, EventWallet(e), "">>
      [] kind = "positions" -> <<kind, EventWallet(e), "">>
      [] kind = "stats" -> <<kind, EventWallet(e), "">>
      [] kind = "trades" -> <<kind, EventWallet(e), EventMarket(e)>>
      [] kind = "market" -> <<kind, "", EventMarket(e)>>
(* profile and positions: the TTLs of the code; the two kinds the code     *)
(* gives no TTL are asked again within the same second.                    *)
KindTTL(kind) ==
    CASE kind = "profile" -> PROFILE_TTL
      [] kind = "positions" -> POSITIONS_TTL
      [] OTHER -> 1
Answered(kind, gw) ==
    IF kind = "market" THEN gw.market.ok /\ Len(gw.market.body) > 0 ELSE gw[kind].ok
Range(sq) == { sq[i] : i \in 1..Len(sq) }

StoredAge(cache, w, valueKey, timeKey) ==
    IF w \in DOMAIN cache /\ valueKey \in DOMAIN cache[w]
    THEN now - cache[w][timeKey] ELSE 0 - 1

NoLast ==
    [key |-> <<"", "", "">>, stage |-> "", calls |-> <<>>, sends |-> 0,
     score |-> 0 - 1, raw |-> 0 - 1, profRet |-> None, posRet |-> None,
     profAge |-> 0 - 1, posAge |-> 0 - 1, profResp |-> Fail, posResp |-> Fail,
     known |-> FALSE, evicted |-> {}, size |-> 0, price |-> 0, market |-> "",
     failed |-> {}, exclSeen |-> {}, exclDuring |-> "idle",
     refetched |-> {}, age |-> 0 - 1, tx |-> "", txKnown |-> FALSE,
     remissed |-> {}]

(* frame: what the latest data frame was ("trade", or a kind of frame     *)
(* that on_message does not hand on); failedTags: the tags whose fetch     *)
(* failed in the refresh under way, or in the latest one                   *)
NoHist == [missed |-> EmptyDict, txs |-> {}, frame |-> "none", failedTags |-> {}]

-----------------------------------------------------------------------------
(* The Gateway answers a request when it is made.  Draw(e) is every way    *)
(* the requests of process_trade(e) can be answered: a response is drawn   *)
(* for a request only if the call is reached under the responses drawn for *)
(* the requests before it (the code's order: profile, trades, positions,   *)
(* stats, market info, Telegram).                                          *)
Run(e, gw) ==
    process_trade(e, seen_trades, seen_trades \cup {TradeId(e)}, wallet_cache,
                  excluded_markets_cache, stats, now, gw)
DrawFor(e, G, kind, bodies) ==
    UNION { IF kind \in Range(Run(e, g).calls)
            THEN { [g EXCEPT ![kind] = r] : r \in Responses(bodies) }
            ELSE { g } : g \in G }
Draw(e) ==
    LET G1 == DrawFor(e, {GatewayDown}, "profile", Profiles)
        G2 == DrawFor(e, G1, "trades", Histories)
        G3 == DrawFor(e, G2, "positions", PositionLists)
        G4 == DrawFor(e, G3, "stats", StatsBodies)
        G5 == DrawFor(e, G4, "market", MarketBodies)
    IN  UNION { IF Run(e, g).sends > 0
                THEN { g, [g EXCEPT !.telegram = TRUE] } ELSE { g } : g \in G5 }

(* process_trade(e), the Gateway answering with gw *)
HandleTrade(e, gw, cap) ==
    /\ booted
    /\ stats.trades_received < cap
    /\ \E kept \in Evictions(seen_trades \cup {TradeId(e)}) :
       \E r \in { process_trade(e, seen_trades, kept, wallet_cache,
                                excluded_markets_cache, stats, now, gw) } :
         LET w == EventWallet(e)
             made == Range(r.calls)
         IN  /\ seen_trades' = r.seen
             /\ wallet_cache' = r.cache
             /\ stats' = r.stats
             /\ accepted' =
                  [k \in DOMAIN accepted \cup {TradeId(e)} |->
                     LET was == Get(accepted, k, [passed |-> 0, order |-> 0, evicted |-> 0])
                     IN  [passed |-> was.passed +
                                     (IF k = TradeId(e) /\ r.stage # "duplicate" THEN 1 ELSE 0),
                          order |-> IF k = TradeId(e) /\ r.stage # "duplicate"
                                    THEN stats.trades_received + 1 ELSE was.order,
                          evicted |-> was.evicted +
                                      (IF k \in (seen_trades \cup {TradeId(e)}) \ r.seen
                                       THEN 1 ELSE 0)]]
             /\ fetched' =
                  [k \in DOMAIN fetched \cup
                         { LookupKey(c, e) : c \in { x \in made : Answered(x, gw) } } |->
                     IF \E c \in made : Answered(c, gw) /\ LookupKey(c, e) = k
                     THEN now ELSE fetched[k]]
             /\ last' =
                  [key |-> TradeId(e), stage |-> r.stage, calls |-> r.calls,
                   sends |-> r.sends, score |-> r.score, raw |-> r.raw,
                   profRet |-> r.profRet, posRet |-> r.posRet,
                   profAge |-> StoredAge(wallet_cache, w, "profile", "last_updated"),
                   posAge |-> StoredAge(wallet_cache, w, "positions", "positions_updated"),
                   profResp |-> IF "profile" \in made THEN gw.profile ELSE Fail,
                   posResp |-> IF "positions" \in made THEN gw.positions ELSE Fail,
                   known |-> TradeId(e) \in seen_trades,
                   evicted |-> (seen_trades \cup {TradeId(e)}) \ r.seen,
                   size |-> Get(e, "size", 0), price |-> Get(e, "price", 0),
                   market |-> EventMarket(e),
                   failed |-> { c \in made : ~gw[c].ok },
                   exclSeen |-> excluded_markets_cache.condition_ids,
                   exclDuring |-> rPc,
                   refetched |-> { c \in made :
                                     /\ LookupKey(c, e) \in DOMAIN fetched
                                     /\ now - fetched[LookupKey(c, e)] < KindTTL(c) },
                   age |-> IF r.profRet.none \/ DOMAIN r.profRet.val = {} THEN 0 - 1
                           ELSE calculate_account_age(r.profRet.val, now),
                   tx |-> EventTx(e),
                   txKnown |-> EventTx(e) \in hist.txs,
                   remissed |-> { c \in made :
                                    /\ LookupKey(c, e) \in DOMAIN hist.missed
                                    /\ now - hist.missed[LookupKey(c, e)] < KindTTL(c) }]
             /\ hist' =
                  [missed |->
                     [k \in DOMAIN hist.missed \cup
                             { LookupKey(c, e) : c \in { x \in made : IsNotFound(gw[x]) } } |->
                        IF \E c \in made : IsNotFound(gw[c]) /\ LookupKey(c, e) = k
                        THEN now ELSE hist.missed[k]],
                   txs |-> hist.txs \cup {EventTx(e)},
                   frame |-> "trade",
                   failedTags |-> hist.failedTags]
    /\ UNCHANGED <<excluded_markets_cache, rPc, all_excluded, tagsLeft, booted, now>>

ProcessTrade(e, gw, cap) ==
    /\ HandleTrade(e, gw, cap)
    /\ UNCHANGED wsVars

(* time passes, to one of the instants StartTime + o *)
Tick(offsets) ==
    /\ \E o \in offsets : StartTime + o > now /\ now' = StartTime + o
    /\ UNCHANGED <<pipeVars, wsVars>>

-----------------------------------------------------------------------------
(* refresh_excluded_markets, on the thread of print_stats_periodically     *)
(* (and once in run_detector before the stream is opened).                 *)
(* get_markets_by_tag reads the tag's markets page by page and returns     *)
(* what it has collected when a page fails (lines 125-130): pagesRead is   *)
(* the number of pages answered before the failure, or all of them.        *)
TagPages(tag) ==
    CASE tag = 1 -> << {"m1"} >>
      [] tag = 235 -> << {"m3"} >>
get_markets_by_tag(tag_id, pagesRead) ==
    UNION { TagPages(tag_id)[i] : i \in 1..pagesRead }

RefreshBegin ==
    /\ rPc = "idle"
    /\ ~(now - excluded_markets_cache.last_updated < EXCLUDED_CACHE_TTL)
    /\ rPc' = "build"
    /\ all_excluded' = {}
    /\ tagsLeft' = EXCLUDED_TAG_IDS
    /\ hist' = [hist EXCEPT !.failedTags = {}]
    /\ UNCHANGED <<seen_trades, wallet_cache, excluded_markets_cache, stats, booted,
                   last, accepted, fetched, now, wsVars>>

(* A variant of line 150 that adds the tag's markets to the set in use.    *)
RefreshCollectInPlace(cacheRec, local, condition_ids) ==
    [cache |-> [cacheRec EXCEPT !.condition_ids = @ \cup condition_ids],
     local |-> local \cup condition_ids]

(* line 150; the set in use is not touched *)
RefreshCollect(cacheRec, local, condition_ids) ==
    [cache |-> cacheRec, local |-> local \cup condition_ids]

RefreshTag ==
    /\ rPc = "build"
    /\ tagsLeft # <<>>
    /\ \E n \in 0..Len(TagPages(Head(tagsLeft))) :
         LET c == RefreshCollect(excluded_markets_cache, all_excluded,
                                 get_markets_by_tag(Head(tagsLeft), n))
         IN  /\ all_excluded' = c.local
             /\ excluded_markets_cache' = c.cache
             /\ hist' = [hist EXCEPT !.failedTags =
                            IF n < Len(TagPages(Head(tagsLeft)))
                            THEN @ \cup {Head(tagsLeft)} ELSE @]
    /\ tagsLeft' = Tail(tagsLeft)
    /\ UNCHANGED <<seen_trades, wallet_cache, stats, rPc, booted,
                   last, accepted, fetched, now, wsVars>>

(* lines 152-153 *)
RefreshPublish ==
    /\ rPc = "build"
    /\ tagsLeft = <<>>
    /\ excluded_markets_cache' = [condition_ids |-> all_excluded, last_updated |-> now]
    /\ rPc' = "idle"
    /\ booted' = TRUE
    /\ UNCHANGED <<seen_trades, wallet_cache, stats, all_excluded, tagsLeft,
                   last, accepted, fetched, hist, now, wsVars>>

-----------------------------------------------------------------------------
(* WebSocketClient.  One thread runs connect(): run_forever dispatches     *)
(* on_open, on_message and on_close on it, and on_close calls connect()    *)
(* again from inside the callback (line 616), so every reconnect adds a    *)
(* connect() invocation to that thread's call stack.  health_loop threads  *)
(* and stop() run beside it.                                               *)
MIN_DELAY == 5
MAX_DELAY == 60
STALE_THRESHOLD == 30
HEALTH_SLEEP == 10
TickSeconds == HEALTH_SLEEP
MaxElapsed == 200
MaxOpens == 2
(* The interpreter's recursion limit, counted in nested connect() calls:   *)
(* the call that would exceed it raises RecursionError.                    *)
MaxNesting == 6

RECURSIVE Pow2(_)
Pow2(n) == IF n <= 0 THEN 1 ELSE 2 * Pow2(n - 1)

(* A variant of line 615 that doubles without the cap. *)
NextDelayUncapped(d) == d * 2

(* line 615 *)
NextDelay(d) == Min(d * 2, MAX_DELAY)

(* ws.close() of the library on the socket self.ws refers to: an open      *)
(* socket is closed; one that is still connecting is closed or, when the   *)
(* call comes before run_forever has created it, left alone.               *)
CloseOutcomes(s) ==
    CASE s = "open" -> {"closed"}
      [] s = "connecting" -> {"connecting", "closed"}
      [] OTHER -> {s}

(* closes: on_close calls since the last on_open; slept: the delay the    *)
(* latest on_close gave time.sleep; lastFrame: when the latest frame of    *)
(* any kind arrived; forced: "no", or how the health check found the       *)
(* stream when it forced a close: "silent" (no frame of any kind within    *)
(* the stale threshold) or "heard"; overflow: connect() hit the recursion  *)
(* limit; sent: what was sent on the socket of the latest connect();       *)
(* handed: a payload of that socket was handed to process_trade; subs:     *)
(* the messages sent on all sockets so far.                                *)
NoObs == [closes |-> 0, slept |-> 0, lastFrame |-> 0, forced |-> "no",
          overflow |-> FALSE, sent |-> <<>>, handed |-> FALSE, subs |-> 0]

(* lines 570-578 *)
subscribe_msg ==
    [action |-> "subscribe",
     subscriptions |-> <<[topic |-> "activity", type |-> "trades"]>>]

(* A variant of on_open that subscribes once for each of the two fields   *)
(* of the subscription.                                                    *)
SubscribePerField(sent) == Append(Append(sent, subscribe_msg), subscribe_msg)

(* line 579: ws.send(json.dumps(subscribe_msg)) *)
Subscribe(sent) == Append(sent, subscribe_msg)

(* A variant of on_message whose exceptions leave the handler and end      *)
(* run_forever.                                                            *)
on_message_reraise(s) == "closed"

(* lines 598-601: both except clauses end the handler normally, and        *)
(* run_forever goes on reading the socket s.                               *)
on_message_except(s) == s

(* lines 645-655, entered from run_detector or from on_close *)
connect(d) ==
    IF d < MaxNesting
    THEN [pc |-> "running", sock |-> "connecting", depth |-> d + 1, overflow |-> FALSE]
    ELSE [pc |-> "exited", sock |-> "closed", depth |-> d, overflow |-> TRUE]

Start ==
    /\ wsPc = "init"
    /\ booted
    /\ wsPc' = connect(depth).pc
    /\ sock' = connect(depth).sock
    /\ depth' = connect(depth).depth
    /\ obs' = [obs EXCEPT !.sent = <<>>, !.handed = FALSE]
    /\ UNCHANGED <<pipeVars, now, should_run, connected, reconnect_delay,
                   last_message_time, wake, health>>

(* lines 562-583 *)
OnOpen ==
    /\ wsPc = "running"
    /\ sock = "connecting"
    /\ Len(health) < MaxOpens
    /\ sock' = "open"
    /\ connected' = TRUE
    /\ reconnect_delay' = MIN_DELAY
    /\ last_message_time' = now
    /\ health' = Append(health, [pc |-> "top", wake |-> 0])
    /\ obs' = [obs EXCEPT !.closes = 0, !.lastFrame = now,
                           !.sent = Subscribe(@),
                           !.subs = @ + Len(Subscribe(obs.sent)) - Len(obs.sent)]
    /\ UNCHANGED <<pipeVars, now, should_run, wsPc, depth, wake>>

(* the connection attempt fails, or the open connection is lost *)
Drop ==
    /\ wsPc = "running"
    /\ sock \in {"connecting", "open"}
    /\ sock' = "closed"
    /\ UNCHANGED <<pipeVars, now, should_run, connected, reconnect_delay,
                   last_message_time, wsPc, depth, wake, health, obs>>

(* lines 585-587: a data frame *)
OnMessage ==
    /\ wsPc = "running"
    /\ sock = "open"
    /\ last_message_time' = now
    /\ obs' = [obs EXCEPT !.lastFrame = now]
    /\ UNCHANGED <<pipeVars, now, should_run, connected, reconnect_delay,
                   sock, wsPc, depth, wake, health>>

(* lines 585-601 on a frame that carries a trade: topic "activity", type   *)
(* "trades" and the payload e, which is handed to process_trade.  When     *)
(* process_trade raises, the handler prints and returns (lines 600-601).   *)
OnMessageTrade(e, gw, cap) ==
    /\ wsPc = "running"
    /\ sock = "open"
    /\ HandleTrade(e, gw, cap)
    /\ last_message_time' = now
    /\ sock' = IF last'.stage = "raised" THEN on_message_except(sock) ELSE sock
    /\ obs' = [obs EXCEPT !.lastFrame = now, !.handed = TRUE]
    /\ UNCHANGED <<should_run, connected, reconnect_delay, wsPc, depth, wake, health>>

(* lines 585-601 on a frame that is not handed on: text that json.loads    *)
(* rejects (JSONDecodeError, line 598), or JSON of another topic.          *)
FrameKinds == {"unparsable", "other"}
OnMessageDropped(kind) ==
    /\ wsPc = "running"
    /\ sock = "open"
    /\ last_message_time' = now
    /\ sock' = IF kind = "unparsable" THEN on_message_except(sock) ELSE sock
    /\ obs' = [obs EXCEPT !.lastFrame = now]
    /\ hist' = [hist EXCEPT !.frame = kind]
    /\ UNCHANGED <<seen_trades, wallet_cache, excluded_markets_cache, stats, rPc,
                   all_excluded, tagsLeft, booted, last, accepted, fetched, now,
                   should_run, connected, reconnect_delay, wsPc, depth, wake, health>>

(* A protocol-level pong (run_forever pings every 20 s, line 655): the     *)
(* library hands it to on_pong, and connect() registers no such callback   *)
(* (lines 647-653), so no code of the client runs.                         *)
KeepAlive ==
    /\ wsPc = "running"
    /\ sock = "open"
    /\ obs' = [obs EXCEPT !.lastFrame = now]
    /\ UNCHANGED <<pipeVars, now, should_run, connected, reconnect_delay,
                   last_message_time, sock, wsPc, depth, wake, health>>

(* lines 607-614: on_close up to and including the call of time.sleep *)
OnClose ==
    /\ wsPc = "running"
    /\ sock = "closed"
    /\ connected' = FALSE
    /\ IF should_run
       THEN /\ wsPc' = "sleep"
            /\ wake' = now + reconnect_delay
            /\ obs' = [obs EXCEPT !.closes = @ + 1, !.slept = reconnect_delay]
       ELSE /\ wsPc' = "exited"
            /\ UNCHANGED <<wake, obs>>
    /\ UNCHANGED <<pipeVars, now, should_run, reconnect_delay, last_message_time,
                   sock, depth, health>>

(* lines 615-616: the sleep is over *)
Reconnect ==
    /\ wsPc = "sleep"
    /\ now >= wake
    /\ reconnect_delay' = NextDelay(reconnect_delay)
    /\ wsPc' = connect(depth).pc
    /\ sock' = connect(depth).sock
    /\ depth' = connect(depth).depth
    /\ wake' = 0
    /\ obs' = [obs EXCEPT !.overflow = connect(depth).overflow,
                           !.sent = IF connect(depth).overflow THEN @ ELSE <<>>,
                           !.handed = IF connect(depth).overflow THEN @ ELSE FALSE]
    /\ UNCHANGED <<pipeVars, now, should_run, connected, last_message_time, health>>

(* lines 657-661 *)
Stop ==
    /\ should_run
    /\ should_run' = FALSE
    /\ \E s \in (IF wsPc = "init" THEN {sock} ELSE CloseOutcomes(sock)) : sock' = s
    /\ UNCHANGED <<pipeVars, now, connected, reconnect_delay, last_message_time,
                   wsPc, depth, wake, health, obs>>

(* lines 621-623: the loop's test and the call of time.sleep(10) *)
HealthTop(i) ==
    /\ health[i].pc = "top"
    /\ health' = [health EXCEPT ![i] =
                    IF connected /\ should_run
                    THEN [pc |-> "sleeping", wake |-> now + HEALTH_SLEEP]
                    ELSE [pc |-> "done", wake |-> 0]]
    /\ UNCHANGED <<pipeVars, now, should_run, connected, reconnect_delay,
                   last_message_time, sock, wsPc, depth, wake, obs>>

(* lines 625-636 *)
HealthCheck(i) ==
    /\ health[i].pc = "sleeping"
    /\ now >= health[i].wake
    /\ IF ~connected
       THEN /\ health' = [health EXCEPT ![i] = [pc |-> "done", wake |-> 0]]
            /\ UNCHANGED <<connected, sock, obs>>
       ELSE IF now - last_message_time > STALE_THRESHOLD
       THEN /\ health' = [health EXCEPT ![i] = [pc |-> "done", wake |-> 0]]
            /\ connected' = FALSE
            /\ \E s \in CloseOutcomes(sock) : sock' = s
            /\ obs' = [obs EXCEPT !.forced =
                          IF now - obs.lastFrame > STALE_THRESHOLD
                          THEN "silent" ELSE "heard"]
       ELSE /\ health' = [health EXCEPT ![i] = [pc |-> "top", wake |-> 0]]
            /\ UNCHANGED <<connected, sock, obs>>
    /\ UNCHANGED <<pipeVars, now, should_run, reconnect_delay, last_message_time,
                   wsPc, depth, wake>>

(* Time passes in steps of TickSeconds.  Threads are scheduled promptly:   *)
(* it does not pass while a sleep that is over, a loop test or the         *)
(* on_close of a closed socket is still to run.                            *)
TickWS ==
    /\ now < StartTime + MaxElapsed
    /\ ~(wsPc = "sleep" /\ now >= wake)
    /\ ~(wsPc = "running" /\ sock = "closed")
    /\ \A i \in 1..Len(health) : ~(health[i].pc = "sleeping" /\ now >= health[i].wake)
    /\ \A i \in 1..Len(health) : health[i].pc # "top"
    /\ now' = now + TickSeconds
    /\ UNCHANGED <<pipeVars, wsVars>>

-----------------------------------------------------------------------------
(* The state after the module is loaded and a WebSocketClient is built     *)
(* (lines 58-63 and 553-560).                                              *)
InitClient ==
    /\ should_run = TRUE
    /\ connected = FALSE
    /\ reconnect_delay = MIN_DELAY
    /\ last_message_time = 0
    /\ sock = "none"
    /\ wsPc = "init"
    /\ depth = 0
    /\ wake = 0
    /\ health = <<>>
    /\ obs = NoObs

InitData ==
    /\ seen_trades = {}
    /\ wallet_cache = EmptyDict
    /\ stats = [trades_received |-> 0, trades_processed |-> 0, alerts_sent |-> 0,
                skipped_excluded |-> 0]
    /\ now = StartTime
    /\ rPc = "idle"
    /\ all_excluded = {}
    /\ tagsLeft = <<>>
    /\ last = NoLast
    /\ accepted = EmptyDict
    /\ fetched = EmptyDict
    /\ hist = NoHist

Init ==
    /\ InitData
    /\ InitClient
    /\ excluded_markets_cache = [condition_ids |-> {}, last_updated |-> 0]
    /\ booted = FALSE

(* run_detector's first refresh_excluded_markets has returned (line 690) *)
InitBooted ==
    /\ InitData
    /\ InitClient
    /\ excluded_markets_cache = [condition_ids |-> {"m1", "m3"}, last_updated |-> StartTime]
    /\ booted = TRUE

(* The program from its start: the first refresh of run_detector, then   *)
(* trades read the exclusion set while the periodic thread refreshes it.   *)
Next ==
    \/ \E e \in ReaderEvents : \E gw \in {GatewayDown, DedupGateway} :
          ProcessTrade(e, gw, MaxEvents)
    \/ Tick({EXCLUDED_CACHE_TTL, 2 * EXCLUDED_CACHE_TTL})
    \/ RefreshBegin
    \/ RefreshTag
    \/ RefreshPublish
Spec == Init /\ [][Next]_vars

(* The pipeline: trades of every shape, the Gateway answering in every way. *)
NextPipeline ==
    \E e \in Events : \E gw \in Draw(e) : ProcessTrade(e, gw, MaxEvents)
SpecPipeline == InitBooted /\ [][NextPipeline]_vars

(* The enrichment cache over time: trades of two wallets that pass the     *)
(* fast filters, at instants on both sides of each TTL.                    *)
NextCache ==
    \/ \E e \in CacheEvents : \E gw \in CacheGateways : ProcessTrade(e, gw, MaxCacheEvents)
    \/ Tick(Offsets)
SpecCache == InitBooted /\ [][NextCache]_vars

(* The deduplicator under many keys.  Hashes are names without meaning, so *)
(* a hash not seen before is the next one of DedupTxs; every hash seen     *)
(* before may come again at any time.                                      *)
NextDedup ==
    \E i \in 1..Len(DedupTxs) : \E e \in DedupEvents :
        /\ EventTx(e) = DedupTxs[i]
        /\ \A j \in 1..(i - 1) : DedupTxs[j] \in hist.txs
        /\ ProcessTrade(e, DedupGateway, MaxDedupEvents)
SpecDedup == InitBooted /\ [][NextDedup]_vars

(* The stream: frames of every kind on a connection that is opened, lost  *)
(* and opened again.                                                       *)
NextStream ==
    \/ Start
    \/ OnOpen
    \/ Drop
    \/ \E e \in StreamEvents : OnMessageTrade(e, DedupGateway, MaxStreamEvents)
    \/ \E kind \in FrameKinds : OnMessageDropped(kind)
    \/ OnClose
    \/ Reconnect
    \/ \E i \in 1..Len(health) : HealthTop(i)
    \/ \E i \in 1..Len(health) : HealthCheck(i)
    \/ now < StartTime + MaxStreamElapsed /\ TickWS
SpecStream == InitBooted /\ [][NextStream]_vars

(* The counters under everything that runs beside process_trade: the      *)
(* connection is lost and opened again, the deduplicator evicts, and the   *)
(* thread of print_stats_periodically reads the counters (line 668) and    *)
(* refreshes the exclusion set.  The stream shows the trades of            *)
(* StreamEvents in the order of StreamTxs, and every trade shown may come  *)
(* again at any time.  The health threads are not scheduled: they name    *)
(* neither stats nor anything process_trade reads.                         *)
StreamTxs == <<"0x1", "0x2", "0x3", "0x4">>
NextCounters ==
    \/ Start
    \/ OnOpen
    \/ Drop
    \/ \E i \in 1..Len(StreamTxs) : \E e \in StreamEvents :
          /\ EventTx(e) = StreamTxs[i]
          /\ \A j \in 1..(i - 1) : StreamTxs[j] \in hist.txs
          /\ OnMessageTrade(e, DedupGateway, MaxCounterEvents)
    \/ OnClose
    \/ Reconnect
    \/ Tick({TickSeconds, EXCLUDED_CACHE_TTL})
    \/ RefreshBegin
    \/ RefreshTag
    \/ RefreshPublish
SpecCounters == InitBooted /\ [][NextCounters]_vars

(* The scorer. *)
NextScoring ==
    \E e \in ScoringEvents : \E gw \in ScoringGateways :
        ProcessTrade(e, gw, MaxScoringEvents)
SpecScoring == InitBooted /\ [][NextScoring]_vars

(* The connector. *)
NextWS ==
    \/ Start
    \/ OnOpen
    \/ Drop
    \/ OnMessage
    \/ KeepAlive
    \/ OnClose
    \/ Reconnect
    \/ Stop
    \/ \E i \in 1..Len(health) : HealthTop(i)
    \/ \E i \in 1..Len(health) : HealthCheck(i)
    \/ TickWS
SpecWS == InitBooted /\ [][NextWS]_vars

-----------------------------------------------------------------------------
(* Properties.                                                             *)

(* C1: among the events that share a dedup key only the first one          *)
(* processed passes the dedup check of process_trade; every later one is   *)
(* rejected there.  accepted[k].passed counts the process_trade calls with *)
(* key k that went past the dedup check.                                   *)
OnlyFirstPassesDedup ==
    \A k \in DOMAIN accepted : accepted[k].passed <= 1

(* C2: an event that fails a fast filter (notional below the minimum,      *)
(* market in the exclusion set, price above the longshot bound) causes no  *)
(* Gateway request of any kind and no alert.                               *)
FastFiltersBeforeEnrichment ==
    (\/ last.size * last.price < MIN_TRADE_AMOUNT * 100
     \/ last.market \in last.exclSeen
     \/ last.price > LONGSHOT_PRICE)
    => last.calls = <<>> /\ last.sends = 0

(* a trade that passes every check but the last fast filter, the price *)
PriceFilterRejected ==
    /\ ~last.known
    /\ last.size * last.price >= MIN_TRADE_AMOUNT * 100
    /\ last.market \notin last.exclSeen
    /\ last.price > LONGSHOT_PRICE
    /\ last.stage = "price"
    /\ last.calls = <<>>

(* C3: the delay before the k-th consecutive reconnect, counting closes    *)
(* since the last on_open, is min(5 * 2^(k-1), 60); while a connection is  *)
(* open the delay for the next close is 5.                                 *)
BackoffSequence ==
    /\ wsPc = "sleep" => obs.slept = Min(MIN_DELAY * Pow2(obs.closes - 1), MAX_DELAY)
    /\ sock = "open" => reconnect_delay = MIN_DELAY

(* the sixth close in a row waits at the cap, after a connection was open *)
SixthCloseWaitsAtCap ==
    /\ wsPc = "sleep"
    /\ obs.closes = 6
    /\ obs.slept = MAX_DELAY
    /\ Len(health) > 0

(* C4: every frame observed, keep-alives included, restarts the stale      *)
(* window: the health check forces a close only when no frame of any kind  *)
(* arrived for longer than the stale threshold.                            *)
ForcedCloseOnlyWhenSilent ==
    obs.forced # "heard"

(* C5: once stop() has cleared should_run on a started client, connect()   *)
(* is not entered again (depth counts the connect() invocations entered).  *)
NoConnectAfterStop ==
    [][(~should_run /\ wsPc # "init") => depth' <= depth]_vars

(* C6: while stop is not requested, the connector is never left in a state *)
(* from which it makes no further connection attempt: the thread that runs *)
(* connect() does not come to its end.                                     *)
ConnectorKeepsReconnecting ==
    should_run => wsPc # "exited"

(* C7: a lookup of a wallet profile or of positions never returns a stored *)
(* value older than its TTL: a value is served without a request only      *)
(* while younger than the TTL, and once the stored value has expired the   *)
(* lookup makes a request and returns the fetched value or, when the       *)
(* request fails, the unavailable result (None, the empty list).           *)
NeverServesExpired ==
    /\ last.stage \in ProfileStages =>
         /\ "profile" \notin Range(last.calls) =>
                last.profAge >= 0 /\ last.profAge < PROFILE_TTL
         /\ last.profAge >= PROFILE_TTL =>
                /\ "profile" \in Range(last.calls)
                /\ last.profRet = IF last.profResp.ok
                                  THEN Some(last.profResp.body) ELSE None
    /\ last.stage \in PositionStages =>
         /\ "positions" \notin Range(last.calls) =>
                last.posAge >= 0 /\ last.posAge < POSITIONS_TTL
         /\ last.posAge >= POSITIONS_TTL =>
                /\ "positions" \in Range(last.calls)
                /\ last.posRet = Some(IF last.posResp.ok
                                      THEN last.posResp.body ELSE <<>>)

(* the refetch of an expired profile fails while the old one is stored *)
ExpiredProfileRefetchFails ==
    /\ last.stage \in ProfileStages
    /\ last.profAge >= PROFILE_TTL
    /\ "profile" \in Range(last.calls)
    /\ ~last.profResp.ok
    /\ last.profRet = None

(* C8: for each of the four kinds (profile, positions, trade history,      *)
(* market metadata), after the Gateway answered a lookup for a key no      *)
(* further request of that kind is made for the key within the TTL.        *)
NoRequestWithinTTL ==
    last.refetched \cap {"profile", "positions", "trades", "market"} = {}

(* C9: an alert is sent for an event if and only if the event went through *)
(* the dedup check, every filter and every enrichment step and its         *)
(* composite score (the sum of the contributions) reaches the alert        *)
(* threshold; at most one send per event.                                  *)
AlertIffScoreReachesThreshold ==
    /\ last.sends <= 1
    /\ last.sends = 1 <=>
         /\ ~last.known
         /\ last.stage \in {"alert", "below"}
         /\ last.raw >= ALERT_SCORE * 100

(* C10: the exclusion set that readers see changes only in the step that   *)
(* publishes a finished refresh, and then to the whole set that refresh    *)
(* built.                                                                  *)
ExclusionSetSwappedWhole ==
    [][excluded_markets_cache.condition_ids' # excluded_markets_cache.condition_ids
         => /\ rPc = "build"
            /\ tagsLeft = <<>>
            /\ rPc' = "idle"
            /\ excluded_markets_cache.condition_ids' = all_excluded]_vars

(* a trade read the set in use while a refresh had built part of another *)
ReaderDuringRefresh ==
    /\ rPc = "build"
    /\ tagsLeft # <<>>
    /\ all_excluded # {}
    /\ all_excluded # excluded_markets_cache.condition_ids
    /\ last.exclDuring = "build"
    /\ last.exclSeen = excluded_markets_cache.condition_ids
    /\ last.stage = "excluded"

(* C11: every counter of stats (trades_received, trades_processed,         *)
(* skipped_excluded, alerts_sent) never decreases and grows by at most one *)
(* in a step, whatever the step is: a trade, an eviction in it, a refresh  *)
(* of the exclusion set, a close or a reconnect.                           *)
CountersGrowByAtMostOne ==
    [][\A k \in DOMAIN stats : stats'[k] >= stats[k] /\ stats'[k] <= stats[k] + 1]_vars

(* every counter has grown, a key was evicted, the connection was opened a *)
(* second time and the exclusion set was refreshed                         *)
CountedThroughReconnectAndRefresh ==
    /\ stats.trades_received > SEEN_LIMIT
    /\ stats.skipped_excluded >= 1
    /\ stats.alerts_sent >= 1
    /\ \E k \in DOMAIN accepted : accepted[k].evicted > 0
    /\ Len(health) >= 2
    /\ excluded_markets_cache.last_updated > StartTime

(* C12: a wallet that provides liquidity in the traded market (at least    *)
(* two positions in it, the absolute values of the Yes side and of the No  *)
(* side both above 100, the smaller more than half the larger) is rejected *)
(* before scoring and never alerts, whichever side is the larger.          *)
LPWalletNeverAlerts ==
    LET book == IF last.posRet.none THEN <<>> ELSE last.posRet.val
        held(o) == SumSeq([i \in 1..Len(book) |->
                             IF /\ book[i].conditionId = last.market
                                /\ Get(book[i], "outcome", "") = o
                             THEN Abs(book[i].currentValue) ELSE 0])
        inMarket == { i \in 1..Len(book) : book[i].conditionId = last.market }
        small == Min(held("Yes"), held("No"))
        large == held("Yes") + held("No") - small
    IN  (/\ Cardinality(inMarket) >= 2
         /\ held("Yes") > 100
         /\ held("No") > 100
         /\ 2 * small > large)
        => last.sends = 0 /\ last.stage \notin {"alert", "below"}

(* C13: the fresh-wallet contribution of a scored event is                 *)
(* 30 * (1 - age / MAX_ACCOUNT_AGE_DAYS), here in hundredths of a point,   *)
(* and an event of an older wallet is not dropped for its age: the signal  *)
(* is left out and the others are still evaluated.                         *)
FreshWalletContribution ==
    /\ last.stage \in {"alert", "below"} =>
         fresh_wallet_score(last.age) * MAX_ACCOUNT_AGE_DAYS
            = 3000 * (MAX_ACCOUNT_AGE_DAYS - last.age)
    /\ (last.age > MAX_ACCOUNT_AGE_DAYS /\ last.age < UNKNOWN_AGE)
         => last.stage # "too_old"

(* C14: on_message on a frame that json.loads rejects, or on a trade whose *)
(* size or price makes process_trade raise, returns with the connection as *)
(* it was (socket, connected flag, connector position, nesting and backoff *)
(* unchanged) and with no alert sent.                                      *)
DroppedFrameLeavesConnection ==
    [][(\/ OnMessageDropped("unparsable")
        \/ \E e \in StreamEvents :
              /\ OnMessageTrade(e, DedupGateway, MaxStreamEvents)
              /\ last'.stage = "raised")
       => /\ sock' = sock
          /\ connected' = connected
          /\ wsPc' = wsPc
          /\ depth' = depth
          /\ reconnect_delay' = reconnect_delay
          /\ stats'.alerts_sent = stats.alerts_sent
          /\ (last' = last \/ last'.sends = 0)]_vars

(* on the first connection a trade with a size that is no number was       *)
(* handled, and a later trade on the same connection was processed to the  *)
(* alert                                                                   *)
AlertAfterRaisingTrade ==
    /\ \E e \in StreamEvents :
          /\ Get(e, "size", 0) = NonNumeric
          /\ TradeId(e) \in DOMAIN accepted
    /\ last.stage = "alert"
    /\ last.sends = 1
    /\ sock = "open"
    /\ connected
    /\ Len(health) = 1

(* C15: on every connection that was opened exactly one message was sent,  *)
(* the subscription to topic "activity", type "trades"; it was sent before *)
(* any payload of that connection was handed to process_trade; nothing is  *)
(* sent on a socket that is not open yet, and the messages sent on all     *)
(* sockets together are as many as there were on_open calls (each on_open  *)
(* starts one health thread).                                              *)
SubscribedOncePerConnection ==
    /\ sock = "open" => obs.sent = <<subscribe_msg>>
    /\ obs.handed => obs.sent = <<subscribe_msg>>
    /\ sock = "connecting" => obs.sent = <<>>
    /\ obs.subs = Len(health)

(* a trade was handed to process_trade on the second connection *)
TradeOnSecondConnection ==
    /\ Len(health) = 2
    /\ sock = "open"
    /\ obs.handed
    /\ obs.subs = 2
    /\ last.stage # ""

(* C16: when the Gateway fails the positions request of an event, the      *)
(* event is not scored and no alert is sent for it.                        *)
PositionsFailureAborts ==
    "positions" \in last.failed
        => last.stage \notin {"alert", "below"} /\ last.sends = 0

(* C17: after the Gateway answered a profile or positions lookup with      *)
(* "not found", no request of that kind is made for the same key within    *)
(* the TTL: the lookup is answered from the cache.                         *)
NotFoundAnsweredFromCache ==
    last.remissed \cap {"profile", "positions"} = {}

(* C18: after every process_trade call seen_trades holds at most           *)
(* SEEN_LIMIT keys.                                                        *)
SeenTradesBounded ==
    Cardinality(seen_trades) <= SEEN_LIMIT

(* more keys were added than the limit allows, and the call that exceeded  *)
(* the limit evicted                                                       *)
SeenTradesTrimmed ==
    /\ Cardinality(DOMAIN accepted) > SEEN_LIMIT
    /\ last.evicted # {}
    /\ Cardinality(seen_trades) = SEEN_LIMIT + 1 - SeenDropCount

(* C19: the eviction removes the least recently inserted keys only: every  *)
(* key kept was inserted later than every key evicted, and the key of the  *)
(* current event is kept.                                                  *)
EvictsLeastRecentlyInserted ==
    /\ last.key \notin last.evicted
    /\ \A k \in last.evicted : \A j \in seen_trades :
           accepted[j].order > accepted[k].order

(* C20: an event is rejected as a duplicate only when an event with the    *)
(* same transaction identifier, read under either naming                   *)
(* (transaction_hash or transactionHash), was handled before: events with  *)
(* different transaction identifiers are never duplicates of one another.  *)
DuplicateOnlyOfSameTransaction ==
    last.stage = "duplicate" => last.txKnown

(* C21: an event whose price is at or above the longshot bound (0.5) is    *)
(* rejected before any enrichment call: it causes no Gateway request and   *)
(* no alert.                                                               *)
PriceAtBoundRejected ==
    last.price >= LONGSHOT_PRICE => last.calls = <<>> /\ last.sends = 0

(* C22: at most one health_loop thread is alive at any time: the loop      *)
(* started for one connection has ended before on_open starts the next.    *)
AtMostOneHealthLoop ==
    Cardinality({ i \in 1..Len(health) : health[i].pc # "done" }) <= 1

(* C23: connect() invocations do not nest: at most one is active at any    *)
(* time, however many reconnects occur (depth counts the invocations that  *)
(* were entered and have not returned).                                    *)
ReconnectsDoNotNest ==
    depth <= 1

(* C24: a refresh in which the fetch of a tag's markets failed does not    *)
(* shrink the exclusion set: every market excluded before it is published  *)
(* is still excluded after.                                                *)
FailedRefreshKeepsSet ==
    [][(RefreshPublish /\ hist.failedTags # {})
         => excluded_markets_cache.condition_ids
               \subseteq excluded_markets_cache'.condition_ids]_vars

====
